---- MODULE Spec2Model ----
(***************************************************************************)
(* QuantumLightSourceController (src/src/core/light_source_controller.py)  *)
(* as a state machine.  Every public operation is one action; the body of  *)
(* the operation is an operator over a record "self" that is threaded      *)
(* through the statements in program order.  power_on waits in time.sleep  *)
(* four times: its action runs it from where its caller is (the entry or   *)
(* the sleep it is in) to the next sleep or to the return, so that the     *)
(* controller is seen in Standby while power_on is asleep.  The three subsystems          *)
(* (quantum_jet, optimizer, monitor) are the environment: each call site   *)
(* gets one of the outcomes "ok" (returns a success value), "false"        *)
(* (returns False) or "raise" (raises an exception).                       *)
(*                                                                         *)
(* Powers are integers in a unit chosen so that max_power is a multiple of *)
(* ten; the warmup ratios 0.1, 0.3, 0.6, 0.8 are kept as tenths.           *)
(***************************************************************************)
EXTENDS Integers, Sequences, FiniteSets, TLC

VARIABLES
    max_power,      \* self.config.max_power (fixed at construction)
    state,          \* self.state
    current_power,  \* self.current_power
    op,             \* name of the operation that was called last ("init" at start)
    args,           \* arguments of that operation
    ret,            \* what it returned: "True", "False", "None" or "Raised";
                    \* "Pending" while it is asleep and has not returned
    trace,          \* collaborator calls and published events of that operation, in order
    old_state,      \* self.state when that operation was called
    old_power,      \* self.current_power when that operation was called
    rt,             \* progress through the demo sequence of examples/basic_demo.py
    callbacks,      \* self._callbacks: event name -> listeners in registration order
    quiet,          \* outcome of that operation had no listener raised
    strict,         \* outcome of that operation had its calls raised instead of returning False
    elapsed,        \* seconds spent emitting since that operation returned
    tasks           \* the execution contexts inside an operation, and the power_off
                    \* that was invoked while another operation was suspended

vars == <<max_power, state, current_power, op, args, ret, trace, old_state, old_power, rt,
          callbacks, quiet, strict, elapsed, tasks>>

----------------------------------------------------------------------------
(* LightSourceState *)
OFF == "off"
STANDBY == "standby"
CALIBRATING == "calibrating"
READY == "ready"
EMITTING == "emitting"
ERROR == "error"
LightSourceState == {OFF, STANDBY, CALIBRATING, READY, EMITTING, ERROR}

(* Values of LightSourceConfig.max_power explored: 10, 20, ..., 10 * MaxConfigs. *)
MaxConfigs == 2
MaxPowers == {10 * k : k \in 1..MaxConfigs}

(* Outcomes of one collaborator call. *)
Outcome == {"ok", "false", "raise"}

(* The events of self._callbacks, and a name register_callback does not know. *)
EventNames == {"state_change", "power_update", "error"}
UnknownEvent == "unknown"

(* A listener is what it does when invoked: return ("ok") or raise. *)
ListenerBehaviour == {"ok", "raise"}

(* Most listeners registered in all, and longest time followed after an operation. *)
MaxListeners == 2
MaxElapsed == 4

(* EmissionParameters explored: around every boundary of the validator. *)
PowerInputs(mp) == {-1, 0, 1, mp, mp + 1}
DurationInputs == {-1, 0, 3}
FrequencyInputs == {-1, 0}
DutyCycleInputs == {0, 1, 2}
EmissionParameters(mp) ==
    [power : PowerInputs(mp), duration : DurationInputs,
     frequency : FrequencyInputs, duty_cycle : DutyCycleInputs]
NoArgs == [power |-> 0, duration |-> 0, frequency |-> 0, duty_cycle |-> 0]

----------------------------------------------------------------------------
(* Trace entries. *)
(* cp and st are self.current_power and self.state at that moment. *)
CallEntry(self, name, arg, out) ==
    [kind |-> "call", name |-> name, old |-> "-", new |-> "-", idx |-> 0,
     arg |-> arg, out |-> out, cp |-> self.current_power, st |-> self.state]
EventEntry(self, name, old, new, arg) ==
    [kind |-> "event", name |-> name, old |-> old, new |-> new, idx |-> 0,
     arg |-> arg, out |-> "-", cp |-> self.current_power, st |-> self.state]
(* The idx-th listener of the event is invoked and behaves as out. *)
ListenerEntry(self, name, old, new, arg, idx, out) ==
    [kind |-> "listener", name |-> name, old |-> old, new |-> new, idx |-> idx,
     arg |-> arg, out |-> out, cp |-> self.current_power, st |-> self.state]

(* A call site of an operation: the method called and its occurrence. *)
Site(name, i) == <<name, i>>

(* One collaborator call: skipped when an exception is already propagating, *)
(* and when the operation is parked in a sleep.                             *)
Call(self, name, arg, out) ==
    IF self.exc \/ self.parked # 0 THEN self
    ELSE [self EXCEPT !.trace = Append(@, CallEntry(self, name, arg, out)),
                      !.exc = (out = "raise")]

(* An except clause catching the propagating exception. *)
Caught(self) == [self EXCEPT !.exc = FALSE]

(* return r; an exception that nobody caught reaches the caller instead, and *)
(* an operation parked in a sleep has not come to its return yet.           *)
Return(self, r) ==
    [self EXCEPT !.ret = IF self.parked # 0 THEN "Pending"
                         ELSE IF self.exc THEN "Raised" ELSE r]

(* time.sleep(duration) of the i-th warmup step: the operation is parked    *)
(* there, unless that is the sleep it is being resumed from.                *)
Sleep(self, i) ==
    IF self.exc \/ self.parked # 0 THEN self ELSE [self EXCEPT !.parked = i]

(* self.current_power = p *)
SetCurrentPower_Dropped(self, p) == self

SetCurrentPower(self, p) ==
    IF self.exc THEN self ELSE [self EXCEPT !.current_power = p]

(* self._callbacks.get(event, []) *)
ListenersOf(cbs, event) == IF event \in DOMAIN cbs THEN cbs[event] ELSE <<>>

(* The loop of _trigger_callbacks from the i-th listener on: a listener that *)
(* raises is logged and the loop goes on.                                    *)
RECURSIVE InvokeFrom_Propagates(_, _, _, _, _, _)
InvokeFrom_Propagates(self, event, old, new, arg, i) ==
    LET ls == ListenersOf(self.callbacks, event)
    IN  IF i > Len(ls) \/ self.exc THEN self
        ELSE InvokeFrom_Propagates(
                 [self EXCEPT !.trace = Append(@, ListenerEntry(self, event, old, new, arg, i, ls[i])),
                              !.exc = (ls[i] = "raise")],
                 event, old, new, arg, i + 1)

RECURSIVE InvokeFrom(_, _, _, _, _, _)
InvokeFrom(self, event, old, new, arg, i) ==
    LET ls == ListenersOf(self.callbacks, event)
    IN  IF i > Len(ls) THEN self
        ELSE InvokeFrom(
                 [self EXCEPT !.trace = Append(@, ListenerEntry(self, event, old, new, arg, i, ls[i]))],
                 event, old, new, arg, i + 1)

(* _trigger_callbacks(event, data) *)
_trigger_callbacks(self, event, old, new, arg) ==
    IF self.exc THEN self
    ELSE InvokeFrom([self EXCEPT !.trace = Append(@, EventEntry(self, event, old, new, arg))],
                    event, old, new, arg, 1)

(* _update_state(new_state) *)
_update_state(self, new_state) ==
    IF self.exc \/ self.parked # 0 THEN self
    ELSE _trigger_callbacks([self EXCEPT !.state = new_state],
                            "state_change", self.state, new_state, 0)

----------------------------------------------------------------------------
(* _execute_warmup_sequence *)
warmup_steps == << <<1, 5>>, <<3, 10>>, <<6, 10>>, <<8, 5>> >>
TargetPower(mp, step) == (mp * step[1]) \div 10

(* The loop from its i-th step on, up to the next sleep. *)
RECURSIVE WarmupFrom(_, _, _)
WarmupFrom(self, o, i) ==
    IF i > Len(warmup_steps) \/ self.exc \/ self.parked # 0 THEN self
    ELSE WarmupFrom(Sleep(Call(self, "optimizer.prepare_for_power",
                               TargetPower(self.max_power, warmup_steps[i]),
                               o[Site("optimizer.prepare_for_power", i)]),
                          i),
                    o, i + 1)
(* self.resume is the sleep the caller wakes up from, 0 at the entry. *)
_execute_warmup_sequence(self, o) == WarmupFrom(self, o, self.resume + 1)

(* power_on *)
PowerOnRejected_ErrorRestarts(s) == s \notin {OFF, ERROR}

PowerOnRejected(s) == s # OFF

(* The calls made from the entry (resume = 0), or from the end of the sleep *)
(* resume, up to the next sleep.                                           *)
PowerOnSites(s, resume) ==
    IF resume = 0
    THEN IF PowerOnRejected(s) THEN {}
         ELSE {Site("quantum_jet.initialize", 1), Site("optimizer.warm_up", 1),
               Site("optimizer.prepare_for_power", 1)}
    ELSE IF resume < Len(warmup_steps)
    THEN {Site("optimizer.prepare_for_power", resume + 1)}
    ELSE {}

(* The statements of power_on before the warmup sequence. *)
PowerOnPrologue(self, o) ==
    IF self.resume # 0 THEN self
    ELSE LET s1 == _update_state(self, STANDBY)
             s2 == Call(s1, "quantum_jet.initialize", 0, o[Site("quantum_jet.initialize", 1)])
         IN  Call(s2, "optimizer.warm_up", 0, o[Site("optimizer.warm_up", 1)])

power_on_ReadyBeforeWarmup(self, o) ==
    IF self.resume = 0 /\ PowerOnRejected(self.state) THEN Return(self, "False")
    ELSE LET s3 == PowerOnPrologue(self, o)
             s4 == IF self.resume = 0 THEN _update_state(s3, READY) ELSE s3
             s5 == _execute_warmup_sequence(s4, o)
         IN  IF s5.exc
             THEN Return(_update_state(Caught(s5), ERROR), "False")
             ELSE Return(s5, "True")

(* From the entry, or from the end of the sleep self.resume, to the next *)
(* sleep or to the return.                                               *)
power_on(self, o) ==
    IF self.resume = 0 /\ PowerOnRejected(self.state) THEN Return(self, "False")
    ELSE LET s3 == PowerOnPrologue(self, o)
             s4 == _execute_warmup_sequence(s3, o)
             s5 == _update_state(s4, READY)
         IN  IF s5.exc
             THEN Return(_update_state(Caught(s5), ERROR), "False")
             ELSE Return(s5, "True")

(* stop_emission *)
IsEmitting(s) == s = EMITTING

StopEmissionSites(s) ==
    IF ~IsEmitting(s) THEN {}
    ELSE {Site("optimizer.stop_real_time_optimization", 1),
          Site("monitor.stop_power_monitoring", 1)}

StopEmissionBody(self, o) ==
    IF self.exc \/ ~IsEmitting(self.state) THEN self
    ELSE LET s1 == Call(self, "optimizer.stop_real_time_optimization", 0,
                        o[Site("optimizer.stop_real_time_optimization", 1)])
             s2 == Call(s1, "monitor.stop_power_monitoring", 0,
                        o[Site("monitor.stop_power_monitoring", 1)])
             s3 == _update_state(s2, READY)
         IN  SetCurrentPower(s3, 0)

stop_emission(self, o) == Return(StopEmissionBody(self, o), "None")

(* power_off *)
PowerOffSites(s) ==
    StopEmissionSites(s)
    \cup {Site("optimizer.shutdown", 1), Site("quantum_jet.shutdown", 1)}

power_off_JetFirst(self, o) ==
    LET s1 == StopEmissionBody(self, o)
        s2 == Call(s1, "quantum_jet.shutdown", 0, o[Site("quantum_jet.shutdown", 1)])
        s3 == Call(s2, "optimizer.shutdown", 0, o[Site("optimizer.shutdown", 1)])
        s4 == _update_state(s3, OFF)
        s5 == SetCurrentPower(s4, 0)
    IN  Return(s5, "None")

power_off_NoTransition(self, o) ==
    LET s1 == StopEmissionBody(self, o)
        s2 == Call(s1, "optimizer.shutdown", 0, o[Site("optimizer.shutdown", 1)])
        s3 == Call(s2, "quantum_jet.shutdown", 0, o[Site("quantum_jet.shutdown", 1)])
    IN  Return(SetCurrentPower(s3, 0), "None")

power_off(self, o) ==
    LET s1 == StopEmissionBody(self, o)
        s2 == Call(s1, "optimizer.shutdown", 0, o[Site("optimizer.shutdown", 1)])
        s3 == Call(s2, "quantum_jet.shutdown", 0, o[Site("quantum_jet.shutdown", 1)])
        s4 == _update_state(s3, OFF)
        s5 == SetCurrentPower(s4, 0)
    IN  Return(s5, "None")

(* _validate_emission_parameters: TRUE when it raises ValueError *)
ValidationFails_NoUpperBound(mp, params) ==
    \/ params.power <= 0
    \/ params.duration < 0
    \/ params.frequency < 0
    \/ params.duty_cycle <= 0 \/ params.duty_cycle > 1

ValidationFails(mp, params) ==
    \/ params.power <= 0 \/ params.power > mp
    \/ params.duration < 0
    \/ params.frequency < 0
    \/ params.duty_cycle <= 0 \/ params.duty_cycle > 1

_validate_emission_parameters(self, params) ==
    IF self.exc THEN self
    ELSE [self EXCEPT !.exc = ValidationFails(self.max_power, params)]

(* _apply_emission_parameters *)
_apply_emission_parameters(self, params, o) ==
    LET s1 == Call(self, "quantum_jet.configure_emission", params.power,
                   o[Site("quantum_jet.configure_emission", 1)])
        s2 == Call(s1, "optimizer.configure_optimization", params.power,
                   o[Site("optimizer.configure_optimization", 1)])
    IN  Call(s2, "monitor.configure_monitoring", params.power,
             o[Site("monitor.configure_monitoring", 1)])

(* start_emission *)
NotReady(s) == s # READY

StartEmissionSites(s, mp, params) ==
    IF NotReady(s) \/ ValidationFails(mp, params) THEN {}
    ELSE {Site("quantum_jet.configure_emission", 1),
          Site("optimizer.configure_optimization", 1),
          Site("monitor.configure_monitoring", 1),
          Site("optimizer.start_real_time_optimization", 1),
          Site("monitor.start_power_monitoring", 1)}

start_emission(self, params, o) ==
    IF NotReady(self.state) THEN Return(self, "False")
    ELSE LET s1 == _validate_emission_parameters(self, params)
             s2 == IF s1.exc THEN s1 ELSE _apply_emission_parameters(s1, params, o)
             s3 == IF s2.exc THEN s2
                   ELSE Call(s2, "optimizer.start_real_time_optimization", 0,
                             o[Site("optimizer.start_real_time_optimization", 1)])
             s4 == _update_state(s3, EMITTING)
             s5 == SetCurrentPower(s4, params.power)
             s6 == IF s5.exc THEN s5
                   ELSE Call(s5, "monitor.start_power_monitoring", 0,
                             o[Site("monitor.start_power_monitoring", 1)])
         IN  IF s6.exc THEN Return(Caught(s6), "False") ELSE Return(s6, "True")

(* set_power *)
PowerOutOfRange(mp, power) == power < 0 \/ power > mp
NotEmitting(s) == s # EMITTING

SetPowerSites(s, mp, power) ==
    IF PowerOutOfRange(mp, power) \/ NotEmitting(s) THEN {}
    ELSE {Site("optimizer.adjust_power", 1)}

set_power_IgnoresResult(self, power, o) ==
    IF PowerOutOfRange(self.max_power, power) THEN Return(self, "False")
    ELSE IF NotEmitting(self.state) THEN Return(self, "False")
    ELSE LET out == o[Site("optimizer.adjust_power", 1)]
             s1 == Call(self, "optimizer.adjust_power", power, out)
         IN  IF s1.exc THEN Return(Caught(s1), "False")
             ELSE Return(_trigger_callbacks(SetCurrentPower(s1, power),
                                            "power_update", "-", "-", power),
                         IF out = "ok" THEN "True" ELSE "False")

set_power(self, power, o) ==
    IF PowerOutOfRange(self.max_power, power) THEN Return(self, "False")
    ELSE IF NotEmitting(self.state) THEN Return(self, "False")
    ELSE LET out == o[Site("optimizer.adjust_power", 1)]
             s1 == Call(self, "optimizer.adjust_power", power, out)
         IN  IF s1.exc THEN Return(Caught(s1), "False")
             ELSE IF out = "ok"
             THEN Return(_trigger_callbacks(SetCurrentPower(s1, power),
                                            "power_update", "-", "-", power), "True")
             ELSE Return(s1, "False")

(* calibrate *)
CalibrateSites ==
    {Site("quantum_jet.calibrate", 1), Site("optimizer.calibrate", 1),
     Site("monitor.calibrate_sensors", 1)}

calibrate_ErrorUnmarked(self, o) ==
    LET s1 == _update_state(self, CALIBRATING)
        s2 == Call(s1, "quantum_jet.calibrate", 0, o[Site("quantum_jet.calibrate", 1)])
        s3 == Call(s2, "optimizer.calibrate", 0, o[Site("optimizer.calibrate", 1)])
        s4 == Call(s3, "monitor.calibrate_sensors", 0, o[Site("monitor.calibrate_sensors", 1)])
    IN  IF s4.exc THEN Return(Caught(s4), "False")
        ELSE IF \A site \in CalibrateSites : o[site] = "ok"
        THEN Return(_update_state(s4, READY), "True")
        ELSE Return(_update_state(s4, ERROR), "False")

calibrate_AnySuccess(self, o) ==
    LET s1 == _update_state(self, CALIBRATING)
        s2 == Call(s1, "quantum_jet.calibrate", 0, o[Site("quantum_jet.calibrate", 1)])
        s3 == Call(s2, "optimizer.calibrate", 0, o[Site("optimizer.calibrate", 1)])
        s4 == Call(s3, "monitor.calibrate_sensors", 0, o[Site("monitor.calibrate_sensors", 1)])
    IN  IF s4.exc THEN Return(_update_state(Caught(s4), ERROR), "False")
        ELSE IF \E site \in CalibrateSites : o[site] = "ok"
        THEN Return(_update_state(s4, READY), "True")
        ELSE Return(_update_state(s4, ERROR), "False")

calibrate(self, o) ==
    LET s1 == _update_state(self, CALIBRATING)
        s2 == Call(s1, "quantum_jet.calibrate", 0, o[Site("quantum_jet.calibrate", 1)])
        s3 == Call(s2, "optimizer.calibrate", 0, o[Site("optimizer.calibrate", 1)])
        s4 == Call(s3, "monitor.calibrate_sensors", 0, o[Site("monitor.calibrate_sensors", 1)])
    IN  IF s4.exc THEN Return(_update_state(Caught(s4), ERROR), "False")
        ELSE IF \A site \in CalibrateSites : o[site] = "ok"
        THEN Return(_update_state(s4, READY), "True")
        ELSE Return(_update_state(s4, ERROR), "False")

----------------------------------------------------------------------------
(* The controller object as the operations see it when they are called. *)
Self ==
    [max_power |-> max_power, state |-> state, current_power |-> current_power,
     callbacks |-> callbacks, trace |-> <<>>, exc |-> FALSE, ret |-> "None",
     resume |-> 0, parked |-> 0]

(* The same controller with every listener replaced by one that returns. *)
SelfQuiet ==
    [Self EXCEPT !.callbacks = [e \in DOMAIN callbacks |->
                                   [i \in 1..Len(callbacks[e]) |-> "ok"]]]

(* TRUE when some registered listener raises, i.e. when SelfQuiet # Self. *)
SomeListenerRaises == \E e \in DOMAIN callbacks : \E i \in 1..Len(callbacks[e]) : callbacks[e][i] = "raise"

(* What the caller sees of an operation. *)
Outcome3(res) == [state |-> res.state, current_power |-> res.current_power, ret |-> res.ret]

(* TRUE when every collaborator call recorded in tr reported success. *)
AllCallsOk(tr) == \A i \in 1..Len(tr) : tr[i].kind = "call" => tr[i].out = "ok"

(* The call sequence of quick_demo in examples/basic_demo.py. *)
DemoSequence == <<"power_on", "calibrate", "start_emission", "stop_emission", "power_off">>

(* Number of leading steps of DemoSequence done so far, from Off, with every *)
(* collaborator call succeeding and valid emission parameters.               *)
(* s0 is the state the operation was called in. *)
DemoProgress(name, a, res, s0) ==
    LET clean == /\ AllCallsOk(res.trace)
                 /\ name = "start_emission" => ~ValidationFails(max_power, a)
    IN  IF res.parked # 0 THEN 0
        ELSE IF rt > 0 /\ rt < Len(DemoSequence) /\ name = DemoSequence[rt + 1] /\ clean
        THEN rt + 1
        ELSE IF name = DemoSequence[1] /\ s0 = OFF /\ clean THEN 1 ELSE 0

(* An execution context that is inside no operation. *)
IdleTask ==
    [op |-> "none", pc |-> "idle", k |-> 0, trace |-> <<>>, old_state |-> OFF, old_power |-> 0]

(* No execution context is inside an operation. *)
BothIdle == tasks.worker.pc = "idle" /\ tasks.stopper.pc = "idle"

(* An operation is called when no other is under way (the callers serialize *)
(* their calls); it has returned (or raised): its effects become the state. *)
Commit(name, a, res, qres, sres) ==
    \E r \in {res} :
        /\ BothIdle
        /\ strict' = IF \E i \in 1..Len(r.trace) : r.trace[i].out = "false"
                     THEN Outcome3(sres) ELSE Outcome3(r)
        /\ quiet' = IF SomeListenerRaises THEN Outcome3(qres) ELSE Outcome3(r)
        /\ elapsed' = 0
        /\ UNCHANGED <<callbacks, tasks>>
        /\ state' = r.state
        /\ current_power' = r.current_power
        /\ op' = name
        /\ args' = a
        /\ ret' = r.ret
        /\ trace' = r.trace
        /\ old_state' = state
        /\ old_power' = current_power
        /\ rt' = DemoProgress(name, a, r, state)
        /\ UNCHANGED max_power

(* The caller of power_on: at the entry, or asleep in the k-th time.sleep. *)
Asleep == tasks.worker.op = "power_on" /\ tasks.worker.pc = "time.sleep"
Resumed(self) ==
    IF Asleep THEN [self EXCEPT !.trace = tasks.worker.trace, !.resume = tasks.worker.k]
    ELSE self

(* power_on has run to res: it is parked in its next sleep, with the        *)
(* controller as it left it, or it has returned.  A result sres that was    *)
(* final while power_on itself went on is kept until power_on returns.      *)
Proceed(res, qres, sres) ==
    \E r \in {res} :
        LET s0 == IF Asleep THEN tasks.worker.old_state ELSE state
            p0 == IF Asleep THEN tasks.worker.old_power ELSE current_power
            during == IF Asleep THEN tasks.during ELSE "none"
        IN  /\ strict' = IF Asleep /\ op = "power_on" /\ strict.ret # "Pending" THEN strict
                         ELSE IF \E i \in 1..Len(r.trace) : r.trace[i].out = "false"
                         THEN Outcome3(sres) ELSE Outcome3(r)
            /\ quiet' = IF SomeListenerRaises THEN Outcome3(qres) ELSE Outcome3(r)
            /\ elapsed' = 0
            /\ state' = r.state
            /\ current_power' = r.current_power
            /\ op' = "power_on"
            /\ args' = NoArgs
            /\ ret' = r.ret
            /\ trace' = r.trace
            /\ old_state' = s0
            /\ old_power' = p0
            /\ rt' = DemoProgress("power_on", NoArgs, r, s0)
            /\ tasks' = IF r.parked # 0
                        THEN [tasks EXCEPT !.worker = [op |-> "power_on", pc |-> "time.sleep",
                                                       k |-> r.parked, trace |-> r.trace,
                                                       old_state |-> s0, old_power |-> p0],
                                           !.during = during]
                        ELSE [tasks EXCEPT !.worker = IdleTask,
                                           !.during = during,
                                           !.settled = IF tasks.stopper.pc = "idle" /\ during # "none"
                                                       THEN [pair |-> during, state |-> r.state]
                                                       ELSE @]
            /\ UNCHANGED <<max_power, callbacks>>

Init ==
    /\ max_power \in MaxPowers
    /\ state = OFF
    /\ current_power = 0
    /\ op = "init"
    /\ args = NoArgs
    /\ ret = "None"
    /\ trace = <<>>
    /\ old_state = OFF
    /\ old_power = 0
    /\ rt = 0
    /\ callbacks = [e \in EventNames |-> <<>>]
    /\ quiet = [state |-> OFF, current_power |-> 0, ret |-> "None"]
    /\ strict = [state |-> OFF, current_power |-> 0, ret |-> "None"]
    /\ elapsed = 0
    /\ tasks = [worker |-> IdleTask, stopper |-> IdleTask, during |-> "none",
                settled |-> [pair |-> "none", state |-> OFF]]

(* The call sites in program order (each operation's sites are in this order). *)
CallOrder ==
    <<Site("quantum_jet.initialize", 1), Site("optimizer.warm_up", 1),
      Site("optimizer.prepare_for_power", 1), Site("optimizer.prepare_for_power", 2),
      Site("optimizer.prepare_for_power", 3), Site("optimizer.prepare_for_power", 4),
      Site("optimizer.stop_real_time_optimization", 1), Site("monitor.stop_power_monitoring", 1),
      Site("optimizer.shutdown", 1), Site("quantum_jet.shutdown", 1),
      Site("quantum_jet.configure_emission", 1), Site("optimizer.configure_optimization", 1),
      Site("monitor.configure_monitoring", 1), Site("optimizer.start_real_time_optimization", 1),
      Site("monitor.start_power_monitoring", 1), Site("optimizer.adjust_power", 1),
      Site("quantum_jet.calibrate", 1), Site("optimizer.calibrate", 1),
      Site("monitor.calibrate_sensors", 1)>>
Rank(site) == CHOOSE i \in 1..Len(CallOrder) : CallOrder[i] = site

(* The outcomes of the sites S: a call that follows a raising call is never *)
(* made, so it has no outcome of its own and is listed as "ok".             *)
Outcomes(S, O) ==
    {o \in [S -> O] :
        \A a \in S : o[a] = "raise" => \A b \in S : Rank(b) > Rank(a) => o[b] = "ok"}

(* The outcomes o with every False return turned into a raise. *)
RaiseInstead(o) == [site \in DOMAIN o |-> IF o[site] = "false" THEN "raise" ELSE o[site]]

(* The public operations, with the collaborators' outcomes drawn from O and *)
(* the emission parameters from P.                                          *)
(* power_on is called when no operation is under way, or its caller wakes *)
(* up from the sleep it is in.                                            *)
PowerOnIn(O) ==
    /\ BothIdle \/ Asleep
    /\ \E o \in Outcomes(PowerOnSites(state, Resumed(Self).resume), O) :
           Proceed(power_on(Resumed(Self), o), power_on(Resumed(SelfQuiet), o),
                   power_on(Resumed(Self), RaiseInstead(o)))

PowerOffIn(O) ==
    \E o \in Outcomes(PowerOffSites(state), O) :
        Commit("power_off", NoArgs, power_off(Self, o), power_off(SelfQuiet, o),
                   power_off(Self, RaiseInstead(o)))

StartEmissionIn(O, P) ==
    \E params \in P :
        \E o \in Outcomes(StartEmissionSites(state, max_power, params), O) :
            Commit("start_emission", params,
                   start_emission(Self, params, o), start_emission(SelfQuiet, params, o),
                   start_emission(Self, params, RaiseInstead(o)))

StopEmissionIn(O) ==
    \E o \in Outcomes(StopEmissionSites(state), O) :
        Commit("stop_emission", NoArgs, stop_emission(Self, o), stop_emission(SelfQuiet, o),
                   stop_emission(Self, RaiseInstead(o)))

SetPowerIn(O) ==
    \E power \in PowerInputs(max_power) :
        \E o \in Outcomes(SetPowerSites(state, max_power, power), O) :
            Commit("set_power", [NoArgs EXCEPT !.power = power],
                   set_power(Self, power, o), set_power(SelfQuiet, power, o),
                   set_power(Self, power, RaiseInstead(o)))

CalibrateIn(O) ==
    \E o \in Outcomes(CalibrateSites, O) :
        Commit("calibrate", NoArgs, calibrate(Self, o), calibrate(SelfQuiet, o),
                   calibrate(Self, RaiseInstead(o)))

PowerOn == PowerOnIn(Outcome)
PowerOff == PowerOffIn(Outcome)
StartEmission == StartEmissionIn(Outcome, EmissionParameters(max_power))
StopEmission == StopEmissionIn(Outcome)
SetPower == SetPowerIn(Outcome)
Calibrate == CalibrateIn(Outcome)

Next ==
    \/ PowerOn
    \/ PowerOff
    \/ StartEmission
    \/ StopEmission
    \/ SetPower
    \/ Calibrate

Spec == Init /\ [][Next]_vars

----------------------------------------------------------------------------
(* register_callback(event, callback) *)
register_callback(cbs, event, callback) ==
    IF event \in DOMAIN cbs THEN [cbs EXCEPT ![event] = Append(@, callback)] ELSE cbs

(* Number of listeners registered so far. *)
RECURSIVE CountListeners(_, _)
CountListeners(cbs, es) ==
    IF es = {} THEN 0
    ELSE LET e == CHOOSE x \in es : TRUE
         IN  Len(cbs[e]) + CountListeners(cbs, es \ {e})
Registered == CountListeners(callbacks, DOMAIN callbacks)

RegisterCallback ==
    /\ BothIdle
    /\ Registered < MaxListeners
    /\ \E event \in EventNames \cup {UnknownEvent}, callback \in ListenerBehaviour :
           callbacks' = register_callback(callbacks, event, callback)
    /\ op' = "register_callback"
    /\ args' = NoArgs
    /\ ret' = "None"
    /\ trace' = <<>>
    /\ old_state' = state
    /\ old_power' = current_power
    /\ quiet' = [state |-> state, current_power |-> current_power, ret |-> "None"]
    /\ strict' = [state |-> state, current_power |-> current_power, ret |-> "None"]
    /\ rt' = 0
    /\ UNCHANGED <<max_power, state, current_power, elapsed, tasks>>

(* The controller with listeners.  The collaborators succeed or raise, and  *)
(* of the emission parameters only the power varies.                        *)
ListenerOutcome == {"ok", "raise"}
ListenerParameters(mp) ==
    {p \in EmissionParameters(mp) : p.duration = 0 /\ p.frequency = 0 /\ p.duty_cycle = 1}

ListenerNext ==
    \/ RegisterCallback
    \/ PowerOnIn(ListenerOutcome)
    \/ PowerOffIn(ListenerOutcome)
    \/ StartEmissionIn(ListenerOutcome, ListenerParameters(max_power))
    \/ StopEmissionIn(ListenerOutcome)
    \/ SetPowerIn(ListenerOutcome)
    \/ CalibrateIn(ListenerOutcome)

ListenerSpec == Init /\ [][ListenerNext]_vars

----------------------------------------------------------------------------
(* One second passes while the source is emitting and no operation is       *)
(* called.  The controller owns no timer, so only the clock moves.          *)
Tick ==
    /\ state = EMITTING
    /\ elapsed < MaxElapsed
    /\ elapsed' = elapsed + 1
    /\ UNCHANGED <<max_power, state, current_power, op, args, ret, trace,
                   old_state, old_power, rt, callbacks, quiet, strict, tasks>>

(* Of the emission parameters the power and the duration vary. *)
TimedParameters(mp) ==
    {p \in EmissionParameters(mp) : p.frequency = 0 /\ p.duty_cycle = 1}

TimedNext ==
    \/ Tick
    \/ PowerOnIn(Outcome)
    \/ PowerOffIn(Outcome)
    \/ StartEmissionIn(Outcome, TimedParameters(max_power))
    \/ StopEmissionIn(Outcome)
    \/ SetPowerIn(Outcome)
    \/ CalibrateIn(Outcome)

TimedSpec == Init /\ [][TimedNext]_vars

----------------------------------------------------------------------------
(* Two execution contexts on one controller.  The worker runs power_on or   *)
(* calibrate, the stopper runs power_off; the code takes no lock, so the    *)
(* stopper may be invoked whenever the worker is suspended: asleep in the   *)
(* warmup of power_on, or inside a collaborator call of calibrate.  The     *)
(* stopper is itself followed from one collaborator call to the next.  pc   *)
(* names the call the context is suspended in, and k the warmup step.       *)
ConcurrentOutcome == {"ok", "raise"}

(* The controller as the context who sees it when it is resumed. *)
Me(who) == [Self EXCEPT !.trace = tasks[who].trace]

Other(who) == IF who = "worker" THEN "stopper" ELSE "worker"

(* The context who is called into the operation name. *)
Invoke(who, name, during) ==
    [tasks EXCEPT ![who] = [op |-> name, pc |-> "idle", k |-> 0, trace |-> <<>>,
                            old_state |-> state, old_power |-> current_power],
                  !.during = during]

(* After running to s, the context who is suspended in the call pc. *)
Suspends(ts, who, s, pc, k) ==
    /\ state' = s.state
    /\ current_power' = s.current_power
    /\ tasks' = [ts EXCEPT ![who].pc = pc, ![who].k = k, ![who].trace = s.trace]
    /\ UNCHANGED <<max_power, op, args, ret, trace, old_state, old_power, rt,
                   callbacks, quiet, strict, elapsed>>

(* After running to s, the operation of the context who returns (or raises). *)
(* When the other context is inside no operation either, the state is        *)
(* recorded together with the operation the power_off had interrupted (none  *)
(* when the power_off itself was ended by a raising collaborator).           *)
Returns(ts, who, s) ==
    /\ state' = s.state
    /\ current_power' = s.current_power
    /\ op' = ts[who].op
    /\ args' = NoArgs
    /\ ret' = s.ret
    /\ trace' = s.trace
    /\ old_state' = ts[who].old_state
    /\ old_power' = ts[who].old_power
    /\ rt' = 0
    /\ quiet' = Outcome3(s)
    /\ strict' = Outcome3(s)
    /\ elapsed' = 0
    /\ tasks' = [ts EXCEPT ![who] = IdleTask,
                           !.settled = IF ts[Other(who)].pc = "idle" /\ ts.during # "none"
                                       THEN [pair |-> ts.during, state |-> s.state]
                                       ELSE @]
    /\ UNCHANGED <<max_power, callbacks>>

(* calibrate, lines 193-219 *)
CalibrateFails(ts, s) == Returns(ts, "worker", Return(_update_state(Caught(s), ERROR), "False"))

BeginCalibrate ==
    /\ BothIdle
    /\ Suspends(Invoke("worker", "calibrate", "none"), "worker",
                _update_state(Self, CALIBRATING), "quantum_jet.calibrate", 0)

ResumeCalibrate ==
    /\ tasks.worker.op = "calibrate"
    /\ tasks.worker.pc # "idle"
    /\ LET pc == tasks.worker.pc
           me == Me("worker")
       IN  \E out \in ConcurrentOutcome \cup {"false"} :
               LET s == Call(me, pc, 0, out)
               IN  IF s.exc THEN CalibrateFails(tasks, s)
                   ELSE CASE pc = "quantum_jet.calibrate" ->
                                 Suspends(tasks, "worker", s, "optimizer.calibrate", 0)
                          [] pc = "optimizer.calibrate" ->
                                 Suspends(tasks, "worker", s, "monitor.calibrate_sensors", 0)
                          [] pc = "monitor.calibrate_sensors" ->
                                 IF AllCallsOk(s.trace)
                                 THEN Returns(tasks, "worker", Return(_update_state(s, READY), "True"))
                                 ELSE Returns(tasks, "worker", Return(_update_state(s, ERROR), "False"))

(* The operation of the worker that a power_off invoked now interrupts. *)
Interrupted ==
    IF Asleep THEN "power_on"
    ELSE IF tasks.worker.op = "calibrate" /\ tasks.worker.pc # "idle"
    THEN "calibrate"
    ELSE "none"

(* power_off, lines 115-126 and 157-168 *)
BeginPowerOff ==
    /\ tasks.stopper.pc = "idle"
    /\ LET ts == Invoke("stopper", "power_off", Interrupted)
       IN  IF IsEmitting(state)
           THEN Suspends(ts, "stopper", Self, "optimizer.stop_real_time_optimization", 0)
           ELSE Suspends(ts, "stopper", Self, "optimizer.shutdown", 0)

ResumePowerOff ==
    /\ tasks.stopper.pc # "idle"
    /\ LET pc == tasks.stopper.pc
           me == Me("stopper")
       IN  \E out \in ConcurrentOutcome :
               LET s == Call(me, pc, 0, out)
               IN  IF s.exc
                   THEN Returns([tasks EXCEPT !.during = "none"], "stopper", Return(s, "None"))
                   ELSE CASE pc = "optimizer.stop_real_time_optimization" ->
                                 Suspends(tasks, "stopper", s, "monitor.stop_power_monitoring", 0)
                          [] pc = "monitor.stop_power_monitoring" ->
                                 Suspends(tasks, "stopper", SetCurrentPower(_update_state(s, READY), 0),
                                          "optimizer.shutdown", 0)
                          [] pc = "optimizer.shutdown" ->
                                 Suspends(tasks, "stopper", s, "quantum_jet.shutdown", 0)
                          [] pc = "quantum_jet.shutdown" ->
                                 Returns(tasks, "stopper",
                                         Return(SetCurrentPower(_update_state(s, OFF), 0), "None"))

ConcurrentNext ==
    \/ PowerOnIn(ConcurrentOutcome)
    \/ BeginCalibrate
    \/ ResumeCalibrate
    \/ BeginPowerOff
    \/ ResumePowerOff
    \/ StartEmissionIn({"ok"}, ListenerParameters(max_power))

ConcurrentSpec == Init /\ [][ConcurrentNext]_vars

----------------------------------------------------------------------------
TypeOK ==
    /\ max_power \in MaxPowers
    /\ state \in LightSourceState
    /\ current_power \in -1..(max_power + 1)
    /\ ret \in {"True", "False", "None", "Raised", "Pending"}
    /\ rt \in 0..Len(DemoSequence)
    /\ strict.state \in LightSourceState
    /\ quiet.state \in LightSourceState
    /\ tasks.worker.op \in {"none", "power_on", "calibrate"}
    /\ tasks.stopper.op \in {"none", "power_off"}
    /\ tasks.worker.k \in 0..Len(warmup_steps)
    /\ tasks.during \in {"none", "power_on", "calibrate"}
    /\ tasks.settled.state \in LightSourceState

----------------------------------------------------------------------------
(* What the properties below read off the last operation. *)
Returned == op # "init" /\ ret # "Pending"
Events(name) == {i \in 1..Len(trace) : trace[i].kind = "event" /\ trace[i].name = name}
Calls == {i \in 1..Len(trace) : trace[i].kind = "call"}
Unchanged == state = old_state /\ current_power = old_power
NoSideEffects == Unchanged /\ trace = <<>>

(* C1: whenever an operation has returned, current_power is 0 in Off,       *)
(* Standby, Calibrating, Ready and Error, and within (0, max_power] in      *)
(* Emitting.                                                                *)
C1_PowerInvariant ==
    Returned =>
        /\ state \in {OFF, STANDBY, CALIBRATING, READY, ERROR} => current_power = 0
        /\ state = EMITTING => (0 < current_power /\ current_power <= max_power)

(* C2: every change of the controller state is an edge of the transition    *)
(* table: Off->Standby, Standby->Ready, Standby->Error, Ready->Calibrating, *)
(* Calibrating->Ready, Calibrating->Error, Ready->Emitting, Emitting->Ready *)
(* or any->Off.                                                             *)
TableEdges ==
    {<<OFF, STANDBY>>, <<STANDBY, READY>>, <<STANDBY, ERROR>>,
     <<READY, CALIBRATING>>, <<CALIBRATING, READY>>, <<CALIBRATING, ERROR>>,
     <<READY, EMITTING>>, <<EMITTING, READY>>}
    \cup {<<s, OFF>> : s \in LightSourceState}
C2_OnlyTableEdges ==
    \A i \in Events("state_change") :
        trace[i].old # trace[i].new => <<trace[i].old, trace[i].new>> \in TableEdges

(* C3: a rejected start_emission (state not Ready, or Ready with power <= 0, *)
(* power > max_power, duration < 0, frequency < 0, duty_cycle <= 0 or       *)
(* duty_cycle > 1) returns false, leaves state and current_power unchanged, *)
(* calls no collaborator and publishes no event.                            *)
C3_InvalidParams ==
    \/ args.power <= 0 \/ args.power > max_power
    \/ args.duration < 0
    \/ args.frequency < 0
    \/ args.duty_cycle <= 0 \/ args.duty_cycle > 1
C3_RejectedStartHasNoEffect ==
    (op = "start_emission" /\ (old_state # READY \/ C3_InvalidParams)) =>
        ret = "False" /\ NoSideEffects
C3_Witness ==
    /\ op = "start_emission" /\ old_state = READY
    /\ args.power = max_power + 1 /\ args.duration = 0
    /\ args.frequency = 0 /\ args.duty_cycle = 1
    /\ ret = "False"

(* C4: start_emission returning true leaves state Emitting with             *)
(* current_power equal to the requested power, and start_emission in Ready  *)
(* with valid parameters and succeeding collaborators returns true.         *)
C4_SuccessfulStart ==
    op = "start_emission" =>
        /\ ret = "True" => (state = EMITTING /\ current_power = args.power)
        /\ (old_state = READY /\ ~C3_InvalidParams /\ AllCallsOk(trace)) => ret = "True"
C4_Witness ==
    /\ op = "start_emission" /\ ret = "True"
    /\ state = EMITTING /\ current_power = max_power

(* C5: stop_emission called in Emitting ends in Ready with current_power 0; *)
(* called in any other state it changes nothing, calls no collaborator and  *)
(* publishes no event.                                                      *)
C5_StopEmission ==
    op = "stop_emission" =>
        IF old_state = EMITTING
        THEN state = READY /\ current_power = 0
        ELSE NoSideEffects

(* C6: power_on called in a state other than Off returns false, changes     *)
(* nothing, publishes no state_change and makes no warmup call.             *)
C6_PowerOnRejected ==
    (op = "power_on" /\ old_state # OFF) => ret = "False" /\ NoSideEffects
C6_Witness ==
    /\ op = "power_on" /\ old_state \in {READY, ERROR, EMITTING}
    /\ ret = "False"

(* C7: from Off, power_on, calibrate, start_emission(valid), stop_emission, *)
(* power_off with every collaborator call succeeding: the first three       *)
(* return true and the sequence ends in Off with current_power 0.           *)
C7_RoundTrip ==
    /\ rt \in 1..3 => ret = "True"
    /\ rt = Len(DemoSequence) => (state = OFF /\ current_power = 0)
C7_Witness == rt = Len(DemoSequence) /\ op = "power_off" /\ old_state = READY

(* C8: calibrate returns true with final state Ready exactly when            *)
(* jet.calibrate, optimizer.calibrate and monitor.calibrate_sensors all     *)
(* report success; if one returns false or raises, it returns false and the *)
(* final state is Error.                                                    *)
C8_CalibrationsOk ==
    \A n \in {"quantum_jet.calibrate", "optimizer.calibrate", "monitor.calibrate_sensors"} :
        \E i \in Calls : trace[i].name = n /\ trace[i].out = "ok"
C8_CalibrateAllOrError ==
    op = "calibrate" =>
        IF C8_CalibrationsOk
        THEN ret = "True" /\ state = READY
        ELSE ret = "False" /\ state = ERROR
C8_Witness ==
    /\ op = "calibrate" /\ old_state = READY
    /\ Cardinality(Calls) = 3
    /\ \E i \in Calls : trace[i].out = "false"
    /\ \E i \in Calls : trace[i].out = "ok"
    /\ ret = "False" /\ state = ERROR

(* C9: power_off called in any state, whatever the shutdown collaborators   *)
(* do, raises nothing and ends in Off with current_power 0.                 *)
C9_PowerOffAlwaysSucceeds ==
    op = "power_off" => (ret # "Raised" /\ state = OFF /\ current_power = 0)

(* C10: set_power(p) is rejected (returns false, nothing changes,           *)
(* adjust_power is not called, no power_update) whenever the state is not   *)
(* Emitting and whenever p <= 0 or p > max_power.                           *)
C10_SetPowerRejected ==
    (op = "set_power" /\ (old_state # EMITTING \/ args.power <= 0 \/ args.power > max_power)) =>
        ret = "False" /\ NoSideEffects

(* C11: set_power(p) in Emitting with p in the accepted range calls          *)
(* optimizer.adjust_power(p) once; if that succeeds, set_power returns      *)
(* true, current_power = p and exactly one power_update carrying p is       *)
(* published; if it returns false or raises, set_power returns false,       *)
(* current_power is unchanged and no power_update is published.  set_power  *)
(* never changes the state.                                                 *)
C11_Adjust == {i \in Calls : trace[i].name = "optimizer.adjust_power"}
C11_SetPowerDelegates ==
    op = "set_power" =>
        /\ state = old_state
        /\ (old_state = EMITTING /\ args.power >= 0 /\ args.power <= max_power) =>
              /\ Cardinality(C11_Adjust) = 1
              /\ \A i \in C11_Adjust :
                    /\ trace[i].arg = args.power
                    /\ IF trace[i].out = "ok"
                       THEN /\ ret = "True"
                            /\ current_power = args.power
                            /\ Cardinality(Events("power_update")) = 1
                            /\ \A j \in Events("power_update") :
                                  j > i /\ trace[j].arg = args.power
                       ELSE /\ ret = "False"
                            /\ current_power = old_power
                            /\ Events("power_update") = {}
C11_Witness ==
    /\ op = "set_power" /\ old_state = EMITTING
    /\ ret = "True" /\ current_power = max_power /\ old_power = 1
    /\ Cardinality(Events("power_update")) = 1

(* C12: after a successful start_emission with duration > 0 and no further  *)
(* operation, once more than duration seconds have passed the controller    *)
(* has left Emitting on its own: state = Ready and current_power = 0.       *)
C12_AutoStop ==
    (op = "start_emission" /\ ret = "True" /\ args.duration > 0 /\ elapsed > args.duration) =>
        (state = READY /\ current_power = 0)

(* C13: every committed state transition publishes exactly one state_change *)
(* event whose old_state and new_state are the states before and after the  *)
(* transition and form an edge of the table; the event is delivered when    *)
(* the state already equals new_state; without a transition no state_change *)
(* is published.                                                            *)
StateBefore(i) == IF i = 1 THEN old_state ELSE trace[i - 1].st
StateAtEnd == IF trace = <<>> THEN old_state ELSE trace[Len(trace)].st
C13_EventsMatchTransitions ==
    /\ state = StateAtEnd
    /\ \A i \in 1..Len(trace) :
          trace[i].st # StateBefore(i) =>
              trace[i].kind = "event" /\ trace[i].name = "state_change"
    /\ \A i \in Events("state_change") :
          /\ trace[i].old = StateBefore(i)
          /\ trace[i].new = trace[i].st
C13_StateChangeEvents ==
    /\ C13_EventsMatchTransitions
    /\ \A i \in Events("state_change") : <<trace[i].old, trace[i].new>> \in TableEdges

(* C14: once the state is Error, power_on, calibrate, start_emission,        *)
(* stop_emission and set_power all leave it Error; only power_off changes   *)
(* it.                                                                      *)
C14_ErrorNotSelfHealing ==
    (Returned /\ old_state = ERROR /\ op # "power_off") =>
        (state = ERROR /\ Events("state_change") = {})

(* C15: power_on called in Off: if jet.initialize, optimizer.warm_up or a    *)
(* prepare_for_power step fails (returns False or raises), power_on returns *)
(* false and the final state is Error; if all succeed it returns true and   *)
(* the final state is Ready.                                                *)
Raised(i) == trace[i].out = "raise"
C15_PowerOnFailsToError ==
    (op = "power_on" /\ old_state = OFF /\ Returned) =>
        IF AllCallsOk(trace)
        THEN ret = "True" /\ state = READY
        ELSE ret = "False" /\ state = ERROR

(* C16: whenever a collaborator failure during power_on or calibrate drives  *)
(* the controller to Error, an "error" event is published.                  *)
C16_ErrorEventPublished ==
    (/\ op \in {"power_on", "calibrate"}
     /\ ret = "False"
     /\ \E i \in Events("state_change") : trace[i].new = ERROR) =>
        Events("error") # {}

(* C17: when a listener raises during the publication of an event, every    *)
(* listener registered after it for that event is still invoked, nothing is *)
(* raised to the caller on its account, and the operation's return value,   *)
(* final state and current_power are what they are when no listener raises. *)
AllEvents == {i \in 1..Len(trace) : trace[i].kind = "event"}
C17_AllListenersInvoked ==
    \A i \in AllEvents :
        LET ls == ListenersOf(callbacks, trace[i].name)
        IN  \A k \in 1..Len(ls) :
                /\ i + k <= Len(trace)
                /\ trace[i + k].kind = "listener"
                /\ trace[i + k].name = trace[i].name
                /\ trace[i + k].idx = k
                /\ trace[i + k].out = ls[k]
                /\ trace[i + k].arg = trace[i].arg
C17_ListenerFailuresContained ==
    /\ C17_AllListenersInvoked
    /\ quiet = [state |-> state, current_power |-> current_power, ret |-> ret]
C17_Witness ==
    /\ op = "power_on" /\ ret = "True" /\ state = READY
    /\ \E i \in 1..(Len(trace) - 1) :
          /\ trace[i].kind = "listener" /\ trace[i].idx = 1 /\ trace[i].out = "raise"
          /\ trace[i + 1].kind = "listener" /\ trace[i + 1].idx = 2
          /\ trace[i + 1].name = trace[i].name

(* C18: every successful start_emission(params) publishes a power_update    *)
(* event carrying params.power.                                             *)
C18_StartPublishesPowerUpdate ==
    (op = "start_emission" /\ ret = "True") =>
        \E i \in Events("power_update") : trace[i].arg = args.power

(* C19: start_emission called in Ready with valid parameters, one of whose  *)
(* collaborator calls fails, returns false and leaves state and             *)
(* current_power unchanged.                                                 *)
C19_FailedStartLeavesReady ==
    (/\ op = "start_emission" /\ old_state = READY /\ ~C3_InvalidParams
     /\ \E i \in Calls : Raised(i)) =>
        (ret = "False" /\ state = READY /\ Unchanged)

(* C20: in power_on, calibrate, start_emission and set_power a call that   *)
(* returns a non-success value is treated as the same call raising: no      *)
(* later collaborator call is made, and the return value, final state and   *)
(* current_power are those of the raising case.                             *)
ReturnedFalse(i) == trace[i].out = "false"
C20_FalseSameAsRaise ==
    (op \in {"power_on", "calibrate", "start_emission", "set_power"} /\ Returned) =>
        /\ strict = [state |-> state, current_power |-> current_power, ret |-> ret]
        /\ \A i \in Calls : ReturnedFalse(i) => \A j \in Calls : j <= i

(* The calls and publications of the last operation, without the listener   *)
(* invocations, each reduced to what it is: kind, name and new state.       *)
IsStep(e) == e.kind # "listener"
Steps == SelectSeq(trace, IsStep)
Shape(e) == <<e.kind, e.name, e.new>>
IsPrefix(t, expected) ==
    /\ Len(t) <= Len(expected)
    /\ \A i \in 1..Len(t) : Shape(t[i]) = expected[i]

(* C22: a successful power_on publishes Off->Standby, then calls            *)
(* jet.initialize, optimizer.warm_up and prepare_for_power with 10%, 30%,   *)
(* 60%, 80% of max_power in that order, and only then publishes             *)
(* Standby->Ready; the state is Standby at every one of the calls and      *)
(* while power_on is asleep between them.                                   *)
C22_Ratios == <<1, 3, 6, 8>>
C22_PowerOnOrder ==
    /\ (op = "power_on" /\ ret = "Pending") => state = STANDBY
    /\ (op = "power_on" /\ ret = "True") =>
        /\ Len(Steps) = 8
        /\ Shape(Steps[1]) = <<"event", "state_change", STANDBY>> /\ Steps[1].old = OFF
        /\ Shape(Steps[2]) = <<"call", "quantum_jet.initialize", "-">>
        /\ Shape(Steps[3]) = <<"call", "optimizer.warm_up", "-">>
        /\ \A k \in 1..4 :
              /\ Shape(Steps[3 + k]) = <<"call", "optimizer.prepare_for_power", "-">>
              /\ 10 * Steps[3 + k].arg = max_power * C22_Ratios[k]
        /\ Shape(Steps[8]) = <<"event", "state_change", READY>> /\ Steps[8].old = STANDBY
        /\ \A i \in 2..7 : Steps[i].st = STANDBY
C22_Witness ==
    /\ op = "power_on" /\ ret = "True" /\ state = READY
    /\ Len(Steps) = 8 /\ Steps[7].arg = (max_power * 8) \div 10

(* C23: power_off stops the emission first when the state is Emitting       *)
(* (stop_real_time_optimization, stop_power_monitoring, Emitting->Ready),   *)
(* then calls optimizer.shutdown, then jet.shutdown, and only then          *)
(* publishes ->Off; from any other state it makes neither stop call.  A     *)
(* power_off ended by a raising collaborator has done the leading part of   *)
(* this sequence, one that returns has done all of it.                      *)
C23_StopSequence ==
    <<<<"call", "optimizer.stop_real_time_optimization", "-">>,
      <<"call", "monitor.stop_power_monitoring", "-">>,
      <<"event", "state_change", READY>>>>
C23_ShutdownSequence ==
    <<<<"call", "optimizer.shutdown", "-">>,
      <<"call", "quantum_jet.shutdown", "-">>,
      <<"event", "state_change", OFF>>>>
C23_Expected ==
    IF old_state = EMITTING THEN C23_StopSequence \o C23_ShutdownSequence
    ELSE C23_ShutdownSequence
C23_PowerOffOrder ==
    op = "power_off" =>
        /\ IsPrefix(Steps, C23_Expected)
        /\ ret = "None" => Len(Steps) = Len(C23_Expected)
C23_Witness ==
    /\ op = "power_off" /\ old_state = EMITTING /\ ret = "None" /\ state = OFF
    /\ Len(Steps) = 6

(* C24: whenever a state_change listener is invoked with new state          *)
(* Emitting, current_power is already the requested power, within           *)
(* (0, max_power]; whenever it is invoked with any other new state,         *)
(* current_power is already 0.                                              *)
C24_PowerAtListeners ==
    \A i \in 1..Len(trace) :
        (trace[i].kind = "listener" /\ trace[i].name = "state_change") =>
            /\ trace[i].new = EMITTING =>
                  /\ trace[i].cp = args.power
                  /\ 0 < trace[i].cp /\ trace[i].cp <= max_power
            /\ trace[i].new # EMITTING => trace[i].cp = 0

(* C25: when an operation has returned, whatever the collaborators did, the *)
(* state is Off, Ready, Emitting or Error, never Standby or Calibrating.    *)
C25_TransientStates ==
    Returned => state \in {OFF, READY, EMITTING, ERROR}
C25_Witness ==
    /\ op \in {"power_on", "calibrate"}
    /\ \E i \in Events("state_change") : trace[i].new \in {STANDBY, CALIBRATING}
    /\ \E i \in Calls : Raised(i)
    /\ state = ERROR

(* C21: when power_off was invoked while power_on was suspended in its      *)
(* warmup sequence, or while calibrate was in progress, the controller is   *)
(* Off once both operations have finished (the power_off by returning).     *)
C21_PowerOffHonoured ==
    tasks.settled.pair \in {"power_on", "calibrate"} => tasks.settled.state = OFF

====
